---- MODULE Spec2Model ----
(***************************************************************************)
(* Model of pygmtsar/SBAS_geocode.py: the forward (radar -> geographic)    *)
(* and inverse (geographic -> radar) index matrices, their builders, the   *)
(* orchestrator geocode_parallel, and the two resamplers.                  *)
(*                                                                         *)
(* Coordinates are integers in units of 1e-2, so the epsilon of the        *)
(* distance limit (1e-2) is 1 and the block margin (1) is 100.             *)
(* Flattened indices are 0-based as in numpy; TLA+ sequences are 1-based,  *)
(* so index k lives at position k + 1.                                     *)
(***************************************************************************)
EXTENDS Integers, Sequences, FiniteSets, TLC

VARIABLES
    chunksize,        \* self.chunksize: chunk length of the radar grid's dask arrays
    blocksize,        \* chunk length of the dask arrays get_trans_dat() returns
    subswath,         \* get_subswath(None): the subswath identifier of this object
    intf_grid,        \* open_grids(pairs[:1], 'phasefilt'): radar y and x coordinates
    trans_dat,        \* get_trans_dat(): the translation table, one (azi, rng) point per row
    trans_ra2ll,      \* F{subswath}_trans_ra2ll.grd: per geographic cell a row of trans_dat or -1
    intf_ra2ll_file,  \* F{subswath}_intf_ra2ll.grd on disk
    intf_ll2ra_file,  \* F{subswath}_intf_ll2ra.grd on disk
    calls,            \* what the last geocode_parallel call invoked, in order
    ret,              \* how the last call ended
    grids,            \* the argument of the resampler call in progress
    pc,               \* position of the resampler call in progress
    results           \* per-layer results collected by joblib.Parallel

vars == <<chunksize, blocksize, subswath, intf_grid, trans_dat, trans_ra2ll, intf_ra2ll_file,
          intf_ll2ra_file, calls, ret, grids, pc, results>>

(***************************************************************************)
(* Bounds of the model and constants of the program.                       *)
(***************************************************************************)
MaxTrans == 2      \* rows of the translation table
Eps == 1           \* the 1e-2 of distance_limit
Margin == 100      \* the 1 by which a chunk's bounds are widened
UINT32_MAX == 2147483647
    \* np.uint32(-1) = 4294967295, the no-match value of the inverse matrix.  TLC's
    \* integers are 32-bit signed: the model uses the largest of them; all that matters
    \* is that it is no index of any grid.

\* np.nan; cell values are strings, so that not-a-number differs from every one of them
NaN == "nan"

\* Radar grids: (y spacing 8, x spacing 6: half diagonal 5) and (4, 4).
IntfGrids ==
    { [y |-> <<0, 800>>, x |-> <<0, 600>>],
      [y |-> <<0, 400>>, x |-> <<0, 400>>] }

\* Candidate translation-table points (azimuth, range).
TransPoints ==
    { [azi |-> 400,  rng |-> 0],      \* midway between two centers of the first grid
      [azi |-> -400, rng |-> 0],      \* outside; as far from cell 0 as the point above
      [azi |-> -501, rng |-> 0],      \* exactly half diagonal + 1e-2 off the first grid
      [azi |-> -150, rng |-> 0] }     \* 1.5 outside the grid

(***************************************************************************)
(* Helpers: numpy indexing, grids, distances.                              *)
(***************************************************************************)
Range(s) == { s[i] : i \in DOMAIN s }

SetMin(S) == CHOOSE m \in S : \A x \in S : m <= x
SetMax(S) == CHOOSE m \in S : \A x \in S : m >= x

\* numpy accepts an index i of an array of length n iff -n <= i < n.
PyIndexOK(n, i) == -n <= i /\ i < n
\* a[i] for a flat numpy array held as a sequence; negative i counts from the end.
PyIndex(a, i) == IF i >= 0 THEN a[i + 1] ELSE a[Len(a) + i + 1]

GridSize(g) == Len(g.y) * Len(g.x)

\* xr.broadcast(y, x) flattened row-major: the center of cell k.
CellY(g, k) == g.y[(k \div Len(g.x)) + 1]
CellX(g, k) == g.x[(k % Len(g.x)) + 1]

Dist2(y1, x1, y2, x2) == (y1 - y2) * (y1 - y2) + (x1 - x2) * (x1 - x2)

\* squared distance of radar cell k of g to translation point p
CellDist2(g, k, p) == Dist2(CellY(g, k), CellX(g, k), p.azi, p.rng)

\* all sequences taking their i-th element from the i-th set
RECURSIVE SeqProduct(_)
SeqProduct(ss) ==
    IF ss = <<>> THEN { <<>> }
    ELSE { <<x>> \o t : x \in Head(ss), t \in SeqProduct(Tail(ss)) }

RECURSIVE ISqrtIn(_, _, _)
ISqrtIn(lo, hi, n) ==
    IF lo >= hi THEN lo
    ELSE LET mid == (lo + hi + 1) \div 2
         IN IF mid * mid <= n THEN ISqrtIn(mid, hi, n) ELSE ISqrtIn(lo, mid - 1, n)
\* floor of the square root
ISqrt(n) == ISqrtIn(0, 40000, n)

(***************************************************************************)
(* Persisted matrix files.  st is "absent", "partial" (created, the matrix *)
(* data not or not wholly written) or "complete".  grid is the radar grid  *)
(* the matrix was built for (the coordinates of the inverse matrix; for    *)
(* the forward matrix it records the grid the indices point into).         *)
(***************************************************************************)
NoGrid == [y |-> <<>>, x |-> <<>>]
AbsentFile == [st |-> "absent", data |-> <<>>, grid |-> NoGrid]
PartialFile(g) == [st |-> "partial", data |-> <<>>, grid |-> g]
CompleteFile(m, g) == [st |-> "complete", data |-> m, grid |-> g]

(***************************************************************************)
(* intf_ra2ll_matrix: the forward matrix builder.                          *)
(***************************************************************************)
\* d < distance_limit, where distance_limit = sqrt((dx/2)^2 + (dy/2)^2) + 1e-2 and
\* D = d^2.  cKDTree.query keeps a neighbour only if its distance is strictly below
\* distance_upper_bound.  In integers: 2 sqrt(D) < sqrt(Q) + 2 Eps, Q = dx^2 + dy^2.
WithinLimitNoBound(g, D) == TRUE
WithinLimit(g, D) ==
    LET dy == g.y[2] - g.y[1]
        dx == g.x[2] - g.x[1]
        Q  == dx * dx + dy * dy
        X  == 4 * D - Q - 4 * Eps * Eps
    IN  \/ X < 0
        \/ /\ X <= 4 * Eps * (ISqrt(Q) + 1)
           /\ X * X < 16 * Eps * Eps * Q

\* tree.query(p, k=1, distance_upper_bound=distance_limit) over the radar cell centers:
\* the possible (isinf(d), ind) answers.  No neighbour within the limit: d = inf, ind = n.
\* Equidistant nearest centers: the tree returns one of them.
QueryBounded(g, p) ==
    LET n      == GridSize(g)
        within == { k \in 0..(n - 1) : WithinLimit(g, CellDist2(g, k, p)) }
    IN  IF within = {}
        THEN { [isinf |-> TRUE, ind |-> n] }
        ELSE { [isinf |-> FALSE, ind |-> k] :
                 k \in { j \in within :
                           \A i \in within : CellDist2(g, j, p) <= CellDist2(g, i, p) } }

\* every possible answer of the query for the whole table
QueryAll(g) == SeqProduct([i \in DOMAIN trans_dat |-> QueryBounded(g, trans_dat[i])])

\* intf2trans = np.where(~np.isinf(d), inds, -1)
intf2trans(q) == [i \in DOMAIN q |-> IF ~q[i].isinf THEN q[i].ind ELSE -1]

\* intf2trans[trans_ra2ll] is evaluated for every cell, also those np.where drops
LookupRaises == \E c \in DOMAIN trans_ra2ll : ~PyIndexOK(Len(trans_dat), trans_ra2ll[c])

\* np.where(trans_ra2ll >= 0, intf2trans[trans_ra2ll], -1)
ForwardMatrix(q) ==
    [c \in DOMAIN trans_ra2ll |->
        IF trans_ra2ll[c] >= 0 THEN PyIndex(intf2trans(q), trans_ra2ll[c]) ELSE -1]

\* assert intf_grid.size > intf_ra2ll.max()
PostCheck(g, m) == GridSize(g) > SetMax(Range(m))

\* The outcomes of intf_ra2ll_matrix(subswath, grids): how it ends and the file it leaves.
\* The old file is removed and the new one written in place by to_netcdf; io = "fail" is
\* a write that raises after the file was created.
intf_ra2ll_matrix(g) ==
    IF LookupRaises
    THEN { [status |-> "raised", why |-> "IndexError", file |-> intf_ra2ll_file] }
    ELSE UNION { IF ~PostCheck(g, ForwardMatrix(q))
                 THEN { [status |-> "raised", why |-> "AssertionError",
                         file |-> intf_ra2ll_file] }
                 ELSE { [status |-> "returned", why |-> "",
                         file |-> CompleteFile(ForwardMatrix(q), g)],
                        [status |-> "raised", why |-> "OSError",
                         file |-> PartialFile(g)] }
               : q \in QueryAll(g) }

(***************************************************************************)
(* intf_ll2ra_matrix: the inverse matrix builder.                          *)
(***************************************************************************)
\* dask chunks of length cs of an axis of length n: index ranges lo..hi, 1-based
ChunkRanges(n, cs) ==
    { [lo |-> b * cs + 1, hi |-> IF (b + 1) * cs < n THEN (b + 1) * cs ELSE n] :
        b \in 0..((n - 1) \div cs) }

\* the chunks of the radar grid handed to calc_intf_ll2ra_matrix: sets of flat cells
RadarChunks(g) ==
    { { (iy - 1) * Len(g.x) + (ix - 1) : iy \in (cy.lo)..(cy.hi), ix \in (cx.lo)..(cx.hi) }
        : cy \in ChunkRanges(Len(g.y), chunksize), cx \in ChunkRanges(Len(g.x), chunksize) }

\* the blocks of the translation table: sets of row positions
TransBlocks == { (b.lo)..(b.hi) : b \in ChunkRanges(Len(trans_dat), blocksize) }

\* get_trans_dat_blocks_extents: (ymin, ymax, xmin, xmax) of a block's points
trans_blocks_extents(b) ==
    [ymin |-> SetMin({ trans_dat[i].azi : i \in b }),
     ymax |-> SetMax({ trans_dat[i].azi : i \in b }),
     xmin |-> SetMin({ trans_dat[i].rng : i \in b }),
     xmax |-> SetMax({ trans_dat[i].rng : i \in b })]

\* blocks = trans_blocks_extents[ymask & xmask] for the chunk K of grid g
CandidateBlocks(g, K) ==
    LET ymin == SetMin({ CellY(g, k) : k \in K })
        ymax == SetMax({ CellY(g, k) : k \in K })
        xmin == SetMin({ CellX(g, k) : k \in K })
        xmax == SetMax({ CellX(g, k) : k \in K })
    IN  { b \in TransBlocks :
            /\ trans_blocks_extents(b).ymax >= ymin - Margin
            /\ trans_blocks_extents(b).ymin <= ymax + Margin
            /\ trans_blocks_extents(b).xmax >= xmin - Margin
            /\ trans_blocks_extents(b).xmin <= xmax + Margin }

\* the rows gathered from the candidate blocks
SourceRows(g, K) == UNION CandidateBlocks(g, K)

\* np.concatenate of an empty list raises ValueError
ChunkRaises(g, K) == SourceRows(g, K) = {}

\* trans_idx: the flattened label of a row (dask.array.arange over the table)
trans_idx_one_based(i) == i
trans_idx(i) == i - 1

\* tree.query(target, k=1) over the gathered rows, then blocks_idxs[inds]:
\* the labels cell k may get (equidistant nearest rows: one of them)
calc_intf_ll2ra_matrix(g, K, k) ==
    { trans_idx(i) : i \in { j \in SourceRows(g, K) :
        \A h \in SourceRows(g, K) :
            CellDist2(g, k, trans_dat[j]) <= CellDist2(g, k, trans_dat[h]) } }

\* the chunk a cell belongs to
ChunkOf(g, k) == CHOOSE K \in RadarChunks(g) : k \in K

\* computing matrix_ra raises iff some chunk does
ComputeRaises(g) == \E K \in RadarChunks(g) : ChunkRaises(g, K)

\* the matrices computing matrix_ra may give, flattened row-major
InverseMatrices(g) ==
    SeqProduct([c \in 1..GridSize(g) |->
                  calc_intf_ll2ra_matrix(g, ChunkOf(g, c - 1), c - 1)])

\* intf_ll2ra_matrix(subswath, intf_grid) with interactive=False: the graph is built
\* lazily, the old file removed, and to_netcdf(..., compute=False) creates the file and
\* returns the delayed write: no matrix data is on disk yet.
intf_ll2ra_matrix(g) == PartialFile(g)

\* computing the delayed write: the matrix is computed chunk by chunk while the file
\* is being written
ComputeDelayed(g) ==
    IF ComputeRaises(g)
    THEN { [status |-> "raised", why |-> "ValueError", file |-> PartialFile(g)] }
    ELSE { [status |-> "returned", why |-> "", file |-> CompleteFile(m, g)] :
             m \in InverseMatrices(g) }

(***************************************************************************)
(* The build entry points.                                                 *)
(***************************************************************************)
NoRaster == [dims |-> <<>>, coords1 |-> <<>>, coords2 |-> <<>>, labels |-> <<>>, layers |-> <<>>]
Returned(o, w, v) == [op |-> o, status |-> "returned", why |-> w, value |-> v]
Raised(o, w) == [op |-> o, status |-> "raised", why |-> w, value |-> NoRaster]
NoCall == [op |-> "", status |-> "", why |-> "", value |-> NoRaster]
IdlePc == [at |-> "idle", done |-> {}]

resampler_vars == <<grids, pc, results>>
input_vars == <<chunksize, blocksize, subswath, intf_grid, trans_dat, trans_ra2ll>>

\* len(str(subswath)) > 1: a merged subswath such as 12, 23 or 123
Merged(sw) == sw >= 10

\* geocode_parallel(pairs): topo_ra_parallel for a merged subswath, then the forward
\* build, then the inverse build, whose delayed write is dropped uncomputed.
geocode_parallel ==
    /\ pc.at = "idle"
    /\ \E f \in intf_ra2ll_matrix(intf_grid) :
        /\ intf_ra2ll_file' = f.file
        /\ IF f.status = "returned"
           THEN /\ intf_ll2ra_file' = intf_ll2ra_matrix(intf_grid)
                /\ calls' = (IF Merged(subswath) THEN <<"topo_ra_parallel">> ELSE <<>>)
                              \o <<"intf_ra2ll_matrix", "intf_ll2ra_matrix">>
                /\ ret' = Returned("geocode_parallel", "", NoRaster)
           ELSE /\ intf_ll2ra_file' = intf_ll2ra_file
                /\ calls' = (IF Merged(subswath) THEN <<"topo_ra_parallel">> ELSE <<>>)
                              \o <<"intf_ra2ll_matrix">>
                /\ ret' = Raised("geocode_parallel", f.why)
    /\ UNCHANGED <<input_vars, resampler_vars>>

\* intf_ll2ra_matrix_parallel(pairs, interactive): builds the inverse matrix and, unless
\* interactive, computes the delayed write with dask.persist.
intf_ll2ra_matrix_parallel ==
    /\ pc.at = "idle"
    /\ \E interactive \in BOOLEAN :
        IF interactive
        THEN /\ ret' = Returned("intf_ll2ra_matrix_parallel", "interactive", NoRaster)
             /\ UNCHANGED intf_ll2ra_file
        ELSE \E o \in ComputeDelayed(intf_grid) :
                /\ intf_ll2ra_file' = o.file
                /\ ret' = IF o.status = "returned"
                          THEN Returned("intf_ll2ra_matrix_parallel", "", NoRaster)
                          ELSE Raised("intf_ll2ra_matrix_parallel", o.why)
    /\ UNCHANGED <<input_vars, resampler_vars, intf_ra2ll_file, calls>>

\* translation tables: up to MaxTrans rows, each row a different point
Tables ==
    UNION { { t \in [1..n -> TransPoints] : \A i, j \in 1..n : t[i] = t[j] => i = j }
              : n \in 1..MaxTrans }

InitBuild ==
    /\ \E cb \in { <<1, 1>>, <<2, 1>>, <<2, 2>> } : chunksize = cb[1] /\ blocksize = cb[2]
    /\ subswath \in {1, 12}
    /\ intf_grid \in IntfGrids
    /\ trans_dat \in Tables
    /\ trans_ra2ll \in { <<-1, t>> : t \in -1..(MaxTrans - 1) }
    /\ intf_ra2ll_file = AbsentFile
    /\ intf_ll2ra_file = AbsentFile
    /\ calls = <<>>
    /\ ret = NoCall
    /\ grids = NoRaster
    /\ pc = IdlePc
    /\ results = <<>>

NextBuild == geocode_parallel \/ intf_ll2ra_matrix_parallel

SpecBuild == InitBuild /\ [][NextBuild]_vars

(***************************************************************************)
(* Rasters.  dims are the dimension names; coords1 and coords2 are the     *)
(* coordinates of the last two (spatial) dimensions; a raster of three     *)
(* dimensions is a stack whose leading dimension carries labels (a         *)
(* passenger coordinate such as pair); layers are flattened row-major.     *)
(***************************************************************************)
MaxLayers == 2     \* layers of a stack

HasDim(r, d) == d \in Range(r.dims)

\* position of coordinate v on an axis
Pos(axis, v) == CHOOSE i \in DOMAIN axis : axis[i] = v

\* grids[item]: one layer of a stack, without the leading dimension
Item(r, i) ==
    [dims |-> Tail(r.dims), coords1 |-> r.coords1, coords2 |-> r.coords2,
     labels |-> <<>>, layers |-> <<r.layers[i]>>]

\* matrix_ra2ll and matrix_ll2ra as intf_ra2ll opens them
matrix_ra2ll == intf_ra2ll_file.data
matrix_ll2ra == intf_ll2ra_file

\* the coordinates of the geographic grid the forward matrix is defined on
GeoLat == <<0>>
GeoLon(n) == [i \in 1..n |-> 10 * i]

\* grid.reindex_like(matrix_ll2ra) of a 2D raster, flattened: the values at the y and x
\* labels of the inverse matrix, not-a-number where the raster has no such label;
\* a raster without those dimensions is left as it is.
reindex_like(r) ==
    IF r.dims = <<"y", "x">>
    THEN [c \in 1..GridSize(matrix_ll2ra.grid) |->
            IF /\ CellY(matrix_ll2ra.grid, c - 1) \in Range(r.coords1)
               /\ CellX(matrix_ll2ra.grid, c - 1) \in Range(r.coords2)
            THEN r.layers[1][(Pos(r.coords1, CellY(matrix_ll2ra.grid, c - 1)) - 1)
                                * Len(r.coords2)
                             + Pos(r.coords2, CellX(matrix_ll2ra.grid, c - 1))]
            ELSE NaN]
    ELSE r.layers[1]

\* matrix_ra2ll_valid = xr.where(matrix_ra2ll < grid.size, matrix_ra2ll, -1)
matrix_ra2ll_valid(size) ==
    [c \in DOMAIN matrix_ra2ll |-> IF matrix_ra2ll[c] < size THEN matrix_ra2ll[c] ELSE -1]

\* np.where(matrix_ra2ll >= 0, grid.values.reshape(-1)[matrix_ra2ll_valid], np.nan)
Gather(flat) ==
    [c \in DOMAIN matrix_ra2ll |->
        IF matrix_ra2ll[c] >= 0
        THEN PyIndex(flat, matrix_ra2ll_valid(Len(flat))[c])
        ELSE NaN]
\* the gather reads flat[matrix_ra2ll_valid] for every cell
GatherRaises(flat) ==
    \E c \in DOMAIN matrix_ra2ll :
        ~PyIndexOK(Len(flat), matrix_ra2ll_valid(Len(flat))[c])

\* ra2ll(grid): the flattened values of the geocoded layer
ra2ll(r) == Gather(reindex_like(r))

\* the DataArray ra2ll returns, on the coordinates of matrix_ra2ll
GeoRaster(values) ==
    [dims |-> <<"lat", "lon">>, coords1 |-> GeoLat, coords2 |-> GeoLon(Len(values)),
     labels |-> <<>>, layers |-> <<values>>]

\* if not 'y' in grids.dims and 'x' in grids.dims
\* (Python reads it as (not 'y' in dims) and ('x' in dims))
ForwardPassthrough(r) == ~HasDim(r, "y") /\ HasDim(r, "x")

\* xr.open_dataarray of a matrix file
OpenRaises == intf_ra2ll_file.st = "absent" \/ intf_ll2ra_file.st = "absent"

\* The rasters handed to the resamplers: radar layers on the grid of the matrices or
\* one azimuth line short of it, radar stacks, geographic layers on and off the
\* translation grid's longitudes, and a profile along x.
ApplyGrid == [y |-> <<0, 400>>, x |-> <<0, 400>>]
\* Cell values are opaque tokens, all different, so that a value tells where it came from.
Patterns(n) ==
    { SubSeq(<<"a0", "a1", "a2", "a3">>, 1, n), SubSeq(<<"b0", "b1", "b2", "b3">>, 1, n) }
RadarLayers ==
    { [dims |-> <<"y", "x">>, coords1 |-> ys, coords2 |-> ApplyGrid.x,
       labels |-> <<>>, layers |-> <<v>>] :
        ys \in { ApplyGrid.y }, v \in Patterns(4) }
    \cup
    { [dims |-> <<"y", "x">>, coords1 |-> <<0>>, coords2 |-> ApplyGrid.x,
       labels |-> <<>>, layers |-> <<v>>] : v \in Patterns(2) }
RadarStacks ==
    UNION { { [dims |-> <<"pair", "y", "x">>, coords1 |-> ApplyGrid.y,
               coords2 |-> ApplyGrid.x, labels |-> [i \in 1..n |-> 100 + i],
               layers |-> vs] : vs \in [1..n -> Patterns(4)] } : n \in 1..MaxLayers }
GeoLayers ==
    { [dims |-> <<"lat", "lon">>, coords1 |-> GeoLat, coords2 |-> lons,
       labels |-> <<>>, layers |-> <<v>>] :
        lons \in { <<10, 20>>, <<12, 22>> }, v \in Patterns(2) }
Profiles ==
    { [dims |-> <<"pair", "x">>, coords1 |-> <<101>>, coords2 |-> ApplyGrid.x,
       labels |-> <<>>, layers |-> <<v>>] : v \in Patterns(2) }
RasterInputs == RadarLayers \cup RadarStacks \cup GeoLayers \cup Profiles

\* joblib.Parallel returns the results in the order of the tasks, whatever the order
\* they finish in: the result of task i goes to position i.
CollectInCompletionOrder(res, i, v) ==
    [res EXCEPT ![SetMin({ j \in DOMAIN res : res[j] = <<>> })] = v]
Collect(res, i, v) == [res EXCEPT ![i] = v]

\* intf_ra2ll(grids): up to the return of a 2D raster or to the dispatch of the
\* per-layer tasks of a stack.
intf_ra2ll ==
    /\ pc.at = "idle"
    /\ \E r \in RasterInputs :
        /\ grids' = r
        /\ IF ForwardPassthrough(r)
           THEN /\ ret' = Returned("intf_ra2ll", "passthrough", r)
                /\ UNCHANGED <<pc, results>>
           ELSE IF OpenRaises
           THEN /\ ret' = Raised("intf_ra2ll", "FileNotFoundError")
                /\ UNCHANGED <<pc, results>>
           ELSE IF Len(r.dims) = 2
           THEN /\ ret' = IF GatherRaises(reindex_like(r))
                          THEN Raised("intf_ra2ll", "IndexError")
                          ELSE Returned("intf_ra2ll", "opened", GeoRaster(ra2ll(r)))
                /\ UNCHANGED <<pc, results>>
           ELSE /\ ret' = NoCall
                /\ pc' = [at |-> "parallel", done |-> {}]
                /\ results' = [i \in DOMAIN r.layers |-> <<>>]
    /\ UNCHANGED <<input_vars, intf_ra2ll_file, intf_ll2ra_file, calls>>

\* one joblib task: ra2ll(grids[item]) finishes, in any order
ra2ll_task ==
    /\ pc.at = "parallel"
    /\ \E i \in DOMAIN grids.layers \ pc.done :
        IF GatherRaises(reindex_like(Item(grids, i)))
        THEN /\ ret' = Raised("intf_ra2ll", "IndexError")
             /\ pc' = IdlePc
             /\ results' = <<>>
        ELSE /\ results' = Collect(results, i, ra2ll(Item(grids, i)))
             /\ pc' = [pc EXCEPT !.done = @ \cup {i}]
             /\ ret' = ret
    /\ UNCHANGED <<input_vars, intf_ra2ll_file, intf_ll2ra_file, calls, grids>>

\* xr.concat along grids.dims[0], the other coordinates than y and x reattached
intf_ra2ll_concat ==
    /\ pc.at = "parallel"
    /\ pc.done = DOMAIN grids.layers
    /\ ret' = Returned("intf_ra2ll", "opened",
                       [dims |-> <<grids.dims[1], "lat", "lon">>,
                        coords1 |-> GeoLat,
                        coords2 |-> GeoLon(Len(matrix_ra2ll)),
                        labels |-> grids.labels,
                        layers |-> results])
    /\ pc' = IdlePc
    /\ results' = <<>>
    /\ UNCHANGED <<input_vars, intf_ra2ll_file, intf_ll2ra_file, calls, grids>>

(***************************************************************************)
(* intf_ll2ra: the inverse resampler (the second definition of that name,  *)
(* which is the one the class keeps).                                      *)
(***************************************************************************)
Abs(n) == IF n < 0 THEN -n ELSE n

\* grids.interp_like(trans_dat.ll, method='nearest'), flattened: at each longitude of
\* the translation grid the value at the nearest longitude of the raster, or
\* not-a-number outside the raster's span
interp_like(r) ==
    [c \in 1..Len(trans_dat) |->
        IF \/ GeoLon(Len(trans_dat))[c] < SetMin(Range(r.coords2))
           \/ GeoLon(Len(trans_dat))[c] > SetMax(Range(r.coords2))
        THEN NaN
        ELSE r.layers[1][SetMin({ j \in DOMAIN r.coords2 :
                \A h \in DOMAIN r.coords2 :
                    Abs(r.coords2[j] - GeoLon(Len(trans_dat))[c])
                        <= Abs(r.coords2[h] - GeoLon(Len(trans_dat))[c]) })]]

\* grid.reshape(-1)[matrix_ll2ra] is read for every cell, the no-match ones too
ll2raRaises(flat) ==
    \E c \in DOMAIN intf_ll2ra_file.data : ~PyIndexOK(Len(flat), intf_ll2ra_file.data[c])

\* np.where(matrix_ll2ra != np.uint32(-1), grid.reshape(-1)[matrix_ll2ra], np.nan)
ll2ra(flat) ==
    [c \in DOMAIN intf_ll2ra_file.data |->
        IF intf_ll2ra_file.data[c] # UINT32_MAX
        THEN PyIndex(flat, intf_ll2ra_file.data[c])
        ELSE NaN]

\* intf_ll2ra(grids) for a raster of two dimensions or one without lat.  The helper
\* check reads `not 'lat' in grids.dims and 'lon' in grid.dims`: when lat is missing,
\* the right operand is evaluated and the undefined name grid raises NameError.
intf_ll2ra ==
    /\ pc.at = "idle"
    /\ \E r \in RasterInputs :
        /\ grids' = r
        /\ ret' = IF ~HasDim(r, "lat")
                  THEN Raised("intf_ll2ra", "NameError")
                  ELSE IF intf_ll2ra_file.st = "absent"
                  THEN Raised("intf_ll2ra", "FileNotFoundError")
                  ELSE IF ll2raRaises(interp_like(r))
                  THEN Raised("intf_ll2ra", "IndexError")
                  ELSE Returned("intf_ll2ra", "resampled",
                                [dims |-> <<"y", "x">>,
                                 coords1 |-> intf_ll2ra_file.grid.y,
                                 coords2 |-> intf_ll2ra_file.grid.x,
                                 labels |-> <<>>,
                                 layers |-> <<ll2ra(interp_like(r))>>])
    /\ UNCHANGED <<input_vars, intf_ra2ll_file, intf_ll2ra_file, calls, pc, results>>

\* The matrices on disk when the resamplers are called.  The forward matrix was built
\* for a grid one azimuth line longer than the grid of the inverse matrix (lines 42-43:
\* "some interferograms have different y dimension and matrix has the largest"), so it
\* may hold an index, 4, at or beyond the size of the layers it is applied to.
ForwardGrid == [y |-> <<0, 400, 800>>, x |-> <<0, 400>>]
ForwardMatrixInputs == [1..2 -> {-1, 0, 3, 4}]
InverseMatrixInputs == { <<a, b, 1, 0>> : a, b \in {0, 1, UINT32_MAX} }

InitApply ==
    /\ chunksize = 2
    /\ blocksize = 2
    /\ subswath = 1
    /\ intf_grid = ApplyGrid
    /\ trans_dat = <<[azi |-> 0, rng |-> 0], [azi |-> 400, rng |-> 300]>>
    /\ trans_ra2ll = <<-1, 0>>
    /\ intf_ra2ll_file \in { CompleteFile(m, ForwardGrid) : m \in ForwardMatrixInputs }
    /\ intf_ll2ra_file \in { CompleteFile(m, ApplyGrid) : m \in InverseMatrixInputs }
    /\ calls = <<>>
    /\ ret = NoCall
    /\ grids = NoRaster
    /\ pc = IdlePc
    /\ results = <<>>

NextApply == intf_ra2ll \/ ra2ll_task \/ intf_ra2ll_concat \/ intf_ll2ra

SpecApply == InitApply /\ [][NextApply]_vars

(***************************************************************************)
(* Claims about the builders and the orchestrator (SpecBuild).             *)
(***************************************************************************)
Complete(f) == f.st = "complete"

\* C1: every entry of a built forward matrix is -1 or an index of the radar grid it
\* was built for, and every entry of a built inverse matrix is the no-match value or
\* an index of the translation table.
C1_SentinelConsistency ==
    /\ Complete(intf_ra2ll_file) =>
         \A c \in DOMAIN intf_ra2ll_file.data :
            \/ intf_ra2ll_file.data[c] = -1
            \/ /\ 0 <= intf_ra2ll_file.data[c]
               /\ intf_ra2ll_file.data[c] < GridSize(intf_ra2ll_file.grid)
    /\ Complete(intf_ll2ra_file) =>
         \A c \in DOMAIN intf_ll2ra_file.data :
            \/ intf_ll2ra_file.data[c] = UINT32_MAX
            \/ /\ 0 <= intf_ll2ra_file.data[c]
               /\ intf_ll2ra_file.data[c] < Len(trans_dat)

\* both matrices built, the forward one holding a valid index and a -1
C1_Witness ==
    /\ Complete(intf_ra2ll_file)
    /\ Complete(intf_ll2ra_file)
    /\ \E c \in DOMAIN intf_ra2ll_file.data : intf_ra2ll_file.data[c] >= 0
    /\ \E c \in DOMAIN intf_ra2ll_file.data : intf_ra2ll_file.data[c] = -1

\* the tolerance, restated: half the cell diagonal + 1e-2, against a squared distance D
C2_Q(g) == (g.x[2] - g.x[1]) * (g.x[2] - g.x[1]) + (g.y[2] - g.y[1]) * (g.y[2] - g.y[1])
C2_X(g, D) == 4 * D - C2_Q(g) - 4
C2_Below(g, D) ==
    C2_X(g, D) < 0 \/ (C2_X(g, D) < 40000 /\ C2_X(g, D) * C2_X(g, D) < 16 * C2_Q(g))
C2_AtMost(g, D) ==
    C2_X(g, D) < 0 \/ (C2_X(g, D) < 40000 /\ C2_X(g, D) * C2_X(g, D) <= 16 * C2_Q(g))
C2_MinDist2(g, p) == SetMin({ CellDist2(g, k, p) : k \in 0..(GridSize(g) - 1) })
C2_Nearest(g, p) ==
    { k \in 0..(GridSize(g) - 1) : CellDist2(g, k, p) = C2_MinDist2(g, p) }

\* C2 as claimed: a cell inside the radar area whose point is at most the tolerance from
\* its nearest radar cell center holds that center's index; every other cell holds -1.
C2_ForwardResultAtMost ==
    Complete(intf_ra2ll_file) =>
        \A c \in DOMAIN trans_ra2ll :
            IF /\ trans_ra2ll[c] >= 0
               /\ C2_AtMost(intf_ra2ll_file.grid,
                            C2_MinDist2(intf_ra2ll_file.grid, trans_dat[trans_ra2ll[c] + 1]))
            THEN intf_ra2ll_file.data[c]
                    \in C2_Nearest(intf_ra2ll_file.grid, trans_dat[trans_ra2ll[c] + 1])
            ELSE intf_ra2ll_file.data[c] = -1

\* C2 amended: the same with "strictly less than the tolerance"; a point exactly at the
\* tolerance, like any farther one, gets -1.
C2_ForwardResultStrict ==
    Complete(intf_ra2ll_file) =>
        \A c \in DOMAIN trans_ra2ll :
            IF /\ trans_ra2ll[c] >= 0
               /\ C2_Below(intf_ra2ll_file.grid,
                           C2_MinDist2(intf_ra2ll_file.grid, trans_dat[trans_ra2ll[c] + 1]))
            THEN intf_ra2ll_file.data[c]
                    \in C2_Nearest(intf_ra2ll_file.grid, trans_dat[trans_ra2ll[c] + 1])
            ELSE intf_ra2ll_file.data[c] = -1

\* a built forward matrix with a cell outside the radar area and a matched cell
C2_Witness ==
    /\ Complete(intf_ra2ll_file)
    /\ \E c \in DOMAIN trans_ra2ll : trans_ra2ll[c] < 0
    /\ \E c \in DOMAIN trans_ra2ll :
        /\ trans_ra2ll[c] >= 0
        /\ intf_ra2ll_file.data[c] >= 0
        /\ C2_Below(intf_ra2ll_file.grid,
                    C2_MinDist2(intf_ra2ll_file.grid, trans_dat[trans_ra2ll[c] + 1]))

\* C5: after a build that failed, the file it writes is not a partly written one.
C5_NoPartialOutput ==
    /\ (ret.op = "geocode_parallel" /\ ret.status = "raised")
          => intf_ra2ll_file.st # "partial"
    /\ (ret.op = "intf_ll2ra_matrix_parallel" /\ ret.status = "raised")
          => intf_ll2ra_file.st # "partial"

\* the rows of the whole table nearest to cell k
C9_GlobalNearest(g, k) ==
    { i - 1 : i \in { j \in DOMAIN trans_dat :
        \A h \in DOMAIN trans_dat :
            CellDist2(g, k, trans_dat[j]) <= CellDist2(g, k, trans_dat[h]) } }

\* C9: every label of a built inverse matrix is a nearest row of the whole
\* translation table, not only of the candidate blocks.
C9_PrunedEqualsGlobal ==
    Complete(intf_ll2ra_file) =>
        \A c \in DOMAIN intf_ll2ra_file.data :
            intf_ll2ra_file.data[c] \in C9_GlobalNearest(intf_ll2ra_file.grid, c - 1)

C3_ForwardPassthrough ==
    (ret.op = "intf_ra2ll" /\ ~HasDim(grids, "y") /\ ~HasDim(grids, "x")) =>
        /\ ret.status = "returned"
        /\ ret.why = "passthrough"
        /\ ret.value = grids

\* C4: intf_ll2ra returns a raster that lacks lat or lon unchanged and does not raise;
\* one that has both is not passed through.
C4_InversePassthrough ==
    ret.op = "intf_ll2ra" =>
        IF HasDim(grids, "lat") /\ HasDim(grids, "lon")
        THEN ret.why # "passthrough"
        ELSE ret.status = "returned" /\ ret.value = grids

\* C6: the i-th layer of a geocoded stack is ra2ll of the i-th input layer alone, and
\* the stack keeps the input's labels, whatever the order the tasks finished in.
C6_StackIndependence ==
    (ret.op = "intf_ra2ll" /\ ret.status = "returned" /\ Len(grids.dims) = 3) =>
        /\ DOMAIN ret.value.layers = DOMAIN grids.layers
        /\ \A i \in DOMAIN grids.layers : ret.value.layers[i] = ra2ll(Item(grids, i))
        /\ ret.value.labels = grids.labels

\* a returned stack of two layers that geocode to different values
C6_Witness ==
    /\ ret.op = "intf_ra2ll"
    /\ ret.status = "returned"
    /\ Len(grids.dims) = 3
    /\ Len(ret.value.layers) >= 2
    /\ ret.value.layers[1] # ret.value.layers[2]

C8_GatherWithSizeMasking ==
    (ret.op = "intf_ra2ll" /\ grids.dims = <<"y", "x">>) =>
        /\ ret.status = "returned"
        /\ \A c \in DOMAIN matrix_ra2ll :
            ret.value.layers[1][c] =
                IF matrix_ra2ll[c] = -1 \/ matrix_ra2ll[c] >= Len(grids.layers[1])
                THEN NaN
                ELSE grids.layers[1][matrix_ra2ll[c] + 1]

====
